---- MODULE Spec2Model ----
(***************************************************************************)
(* The three API smoke-test scripts of the repository as one state         *)
(* machine: scripts/test-deepseek-api.py, scripts/test-qwen3-api.py and    *)
(* scripts/test-qwen3-235b-api.py.  One run of one script is one           *)
(* behaviour: Init fixes the script, its command line and its              *)
(* environment, and the actions are the steps of that script's main.       *)
(* The remote service is the only source of nondeterminism: each request   *)
(* draws its transport outcome from a bounded set.                         *)
(***************************************************************************)
EXTENDS Integers, Sequences, FiniteSets, TLC

VARIABLES
    script,      \* which of the three scripts runs
    argv,        \* the command line: the value of each flag, None when omitted
    args,        \* the argparse namespace, once the command line is parsed
    env,         \* the provider's API-key environment variable
    pc,          \* position in the script's main
    api_key,     \* the credential the client resolved
    url,         \* the URL most recently handed to the HTTP library
    requests,    \* HTTP requests put on the wire so far, in order
    resp,        \* transport outcome of the latest request
    log,         \* records logged or printed by the latest step (start-up, one
                 \* probe, one pass of the repeated-request loop, the summary)
    results,     \* DeepSeek main: (name, success) per probe run so far
    i,           \* test_rate_limits: loop counter
    successful,  \* test_rate_limits: successful requests so far
    trace,       \* test_rate_limits: calls and pauses, in order
    output,      \* qwen3-235b: what test_qwen3_235b returned
    exitCode     \* process exit code, Running until the process ends

vars == <<script, argv, args, env, pc, api_key, url, requests, resp, log, results,
          i, successful, trace, output, exitCode>>

----------------------------------------------------------------------------
(* Bounds of the model. *)

\* longest "choices" list a scripted response carries
MaxChoices == 2
\* longest "data" list a scripted list-models response carries
MaxModels == 2

----------------------------------------------------------------------------
(* Python values. *)

\* Python's None, where a string is expected
None == "<None>"
\* exit code of a process that has not ended
Running == -1

Scripts == {"deepseek", "qwen3", "qwen3_235b"}

\* values of --api-key and of the environment variable: absent, empty, set
KeyVals == {None, "", "sk-test"}

\* bool(x) of an Optional[str]
Truthy(s) == s /= None /\ s /= ""

\* a or b
PyOr(a, b) == IF Truthy(a) THEN a ELSE b

\* A base URL is kept as a sequence of pieces so that rstrip('/') and the
\* f-string that builds the request URL are computed, not assumed.
DEFAULT_API_BASE == <<"https://api.deepseek.com">>
DEFAULT_API_VERSION == "v1"
QWEN3_DEFAULT_API_BASE == <<"https://dashscope.aliyuncs.com/v1">>
QWEN3_235B_DEFAULT_API_BASE == <<"https://dashscope.aliyuncs.com/api/v1">>
CustomBase == <<"https://proxy.example", "/">>
NoBase == <<None>>

\* str(x) as an f-string formats it: None becomes the text "None"
Str(base) == IF base = NoBase THEN <<"None">> ELSE base

\* s.rstrip('/')
RECURSIVE RStrip(_)
RStrip(s) ==
    IF s /= <<>> /\ s[Len(s)] = "/" THEN RStrip(SubSeq(s, 1, Len(s) - 1)) ELSE s

\* requests refuses a URL without a scheme before anything is sent
HasScheme(u) == u /= <<>> /\ u[1] \notin {"None", "/", ""}

----------------------------------------------------------------------------
(* JSON response bodies.  Every body is a record of the same shape so that  *)
(* the membership tests, len() and subscripts of the probes can be          *)
(* evaluated on it: a keyed value is absent, null or a list.                *)

Absent == [k |-> "absent", items |-> <<>>]
Null == [k |-> "null", items |-> <<>>]
List(s) == [k |-> "list", items |-> s]

NoOutput == [k |-> "absent", choices |-> Absent]
NullOutput == [k |-> "null", choices |-> Absent]
Output(c) == [k |-> "dict", choices |-> c]

\* a JSON object with the given "data", "choices" and "output" members
Dict(d, c, o) == [isDict |-> TRUE, data |-> d, choices |-> c, output |-> o]
\* a JSON body that is no object (null)
NotAnObject == [isDict |-> FALSE, data |-> Absent, choices |-> Absent, output |-> NoOutput]

\* One element of a "choices" list.
NullChoice == [isDict |-> FALSE, message |-> "absent", content |-> "absent", text |-> <<>>]
EmptyChoice == [isDict |-> TRUE, message |-> "absent", content |-> "absent", text |-> <<>>]
NullMessage == [isDict |-> TRUE, message |-> "null", content |-> "absent", text |-> <<>>]
NullContent == [isDict |-> TRUE, message |-> "dict", content |-> "null", text |-> <<>>]
Reply(t) == [isDict |-> TRUE, message |-> "dict", content |-> "str", text |-> t]

\* reply texts, as sequences of phrases
PlainText == <<"Hello">>
DomainText == <<"Volatility", "excess return">>
AllTermsText == <<"risk-adjusted", "Volatility", "standard deviation", "excess return">>

ChoiceVals == {NullChoice, EmptyChoice, NullMessage, NullContent,
               Reply(<<>>), Reply(PlainText), Reply(DomainText), Reply(AllTermsText)}

\* choices lists: any first element, followed by ordinary replies
ChoiceLists ==
    {<<>>} \cup {<<c>> \o [j \in 1..n |-> Reply(PlainText)] :
                    c \in ChoiceVals, n \in 0..(MaxChoices - 1)}

ChoicesVals == {Absent, Null} \cup {List(s) : s \in ChoiceLists}

\* One element of the list-models "data" list.
NullEntry == [isDict |-> FALSE, id |-> "absent"]
Entry(idk) == [isDict |-> TRUE, id |-> idk]
EntryVals == {NullEntry, Entry("absent"), Entry("null"), Entry("str")}

DataLists ==
    {<<>>} \cup {<<e>> \o [j \in 1..n |-> Entry("str")] :
                    e \in EntryVals, n \in 0..(MaxModels - 1)}

DataVals == {Absent, Null} \cup {List(s) : s \in DataLists}

\* bodies the three endpoints can answer with
ModelsBodies == {NotAnObject} \cup {Dict(d, Absent, NoOutput) : d \in DataVals}
CompletionBodies == {NotAnObject} \cup {Dict(Absent, c, NoOutput) : c \in ChoicesVals}
DashScopeBodies ==
    {NotAnObject, Dict(Absent, Absent, NoOutput), Dict(Absent, Absent, NullOutput)}
        \cup {Dict(Absent, Absent, Output(c)) : c \in ChoicesVals}

----------------------------------------------------------------------------
(* Transport outcomes of one HTTP request. *)

Statuses == {200, 401, 429, 500}

\* the request never got an HTTP response (connection error, timeout)
NetworkFailure == [net |-> "error", status |-> 0, parses |-> FALSE, body |-> NotAnObject]
\* an HTTP response with a body that is not JSON
Malformed(st) == [net |-> "ok", status |-> st, parses |-> FALSE, body |-> NotAnObject]
\* an HTTP response with a JSON body
Response(st, b) == [net |-> "ok", status |-> st, parses |-> TRUE, body |-> b]
\* resp before any request
NoResponse == [net |-> "none", status |-> 0, parses |-> FALSE, body |-> NotAnObject]

Outcomes(bodies) ==
    {NetworkFailure, Malformed(200)}
        \cup {Response(200, b) : b \in bodies}
        \cup {Response(st, NotAnObject) : st \in Statuses \ {200}}

----------------------------------------------------------------------------
(* Log and console records.  status is the HTTP status code that the       *)
(* record's text shows, 0 when the text shows none; n is the request       *)
(* number or the count the text shows, 0 when it shows none.               *)

Rec(level, msg, status, n) == [level |-> level, msg |-> msg, status |-> status, n |-> n]

\* An exception: its class, and the status code that str(e) shows (the
\* message of the HTTPError raised by raise_for_status starts with the
\* status code; no other exception here mentions one).
Exc(type, status) == [type |-> type, status |-> status]
NoExc == Exc("none", 0)

\* What a call gives back: a returned value or a raised exception, with the
\* records it logged on the way.
Returned(v, l) == [raised |-> FALSE, exc |-> NoExc, value |-> v, log |-> l]
Raised(e, l) == [raised |-> TRUE, exc |-> e, value |-> NotAnObject, log |-> l]

\* response.raise_for_status() raises for 4xx and 5xx
IsHttpError(st) == st >= 400 /\ st < 600

\* The requests call, raise_for_status() and response.json() of the
\* DeepSeek client, as the exception they end in (NoExc when none).
RequestException(o) ==
    IF o.net = "error" THEN Exc("ConnectionError", 0)
    ELSE IF IsHttpError(o.status) THEN Exc("HTTPError", o.status)
    ELSE IF ~o.parses THEN Exc("JSONDecodeError", 0)
    ELSE NoExc

\* `hasattr(e, 'response') and e.response`: only an HTTPError carries a
\* response here, and a Response is truthy only when its status is below 400
HasTruthyResponse(e, o) == e.type = "HTTPError" /\ o.status < 400

\* DeepSeekAPI.get_completion / get_models, after the request was sent
ClientCall(o, failedMsg) ==
    LET e == RequestException(o) IN
    IF e = NoExc THEN Returned(o.body, <<>>)
    ELSE Raised(e,
            <<Rec("error", failedMsg, e.status, 0)>>
            \o (IF HasTruthyResponse(e, o)
                THEN <<Rec("error", "Response status", o.status, 0),
                       Rec("error", "Response body", 0, 0)>>
                ELSE <<>>))

get_completion(o) == ClientCall(o, "API request failed")
get_models(o) == ClientCall(o, "Failed to get models")

\* DeepSeekAPI.__init__: the key the client resolves
ResolveKey(cli, environ) == PyOr(cli, environ)

\* the URLs the DeepSeek client builds
CompletionsUrl(base) == Str(base) \o <<"/", DEFAULT_API_VERSION, "/chat/completions">>
ModelsUrl(base) == Str(base) \o <<"/", DEFAULT_API_VERSION, "/models">>

\* one request as it goes on the wire
Request(method, u, key) == [method |-> method, url |-> u, auth |-> key]

----------------------------------------------------------------------------
(* The probes of scripts/test-deepseek-api.py.  Each takes the transport   *)
(* outcome of its request and gives the boolean it returns and the records *)
(* it logs, in order.                                                      *)

Probe(ok, l) == [ok |-> ok, log |-> l]

\* `"key" in response and ...` on a keyed value: the test raises a
\* TypeError when the body is no container
InRaises(b) == ~b.isDict

\* choices[0].get("message", {}).get("content", ""): raises when the choice
\* or its message is no mapping; a missing message or content gives ""
Content(c) ==
    IF ~c.isDict \/ c.message = "null"
        THEN [raises |-> TRUE, isNone |-> FALSE, text |-> <<>>]
    ELSE IF c.message = "absent" \/ c.content = "absent"
        THEN [raises |-> FALSE, isNone |-> FALSE, text |-> <<>>]
    ELSE IF c.content = "null"
        THEN [raises |-> FALSE, isNone |-> TRUE, text |-> <<>>]
    ELSE [raises |-> FALSE, isNone |-> FALSE, text |-> c.text]

\* m.get('id', 'unknown') for every m and ', '.join of the results: raises
\* when an entry is no mapping or an id is no string
JoinIdsRaises(items) ==
    \E j \in 1..Len(items) : ~items[j].isDict \/ items[j].id = "null"

\* the connectivity predicate of test_api_connectivity
DataIsList(b) == b.data.k = "list"

test_api_connectivity(o) ==
    LET start == <<Rec("info", "Testing API connectivity", 0, 0)>>
        r == get_models(o)
        failed(st) == <<Rec("error", "API connectivity test failed", st, 0)>>
    IN  IF r.raised THEN Probe(FALSE, start \o r.log \o failed(r.exc.status))
        ELSE IF InRaises(r.value) THEN Probe(FALSE, start \o failed(0))
        ELSE IF DataIsList(r.value)
            THEN IF JoinIdsRaises(r.value.data.items)
                 THEN Probe(FALSE, start
                        \o <<Rec("info", "API connection successful", 0, 0)>>
                        \o failed(0))
                 ELSE Probe(TRUE, start
                        \o <<Rec("info", "API connection successful", 0, 0),
                             Rec("info", "Available models", 0, Len(r.value.data.items))>>)
        ELSE Probe(FALSE, start
                \o <<Rec("error", "API returned unexpected format", 0, 0),
                     Rec("error", "Response", 0, 0)>>)

\* HasChoices with the length test off by one
HasChoicesOffByOne(b) == b.choices.k = "list" /\ Len(b.choices.items) > 1

\* `"choices" in response and len(response["choices"]) > 0`: raises when
\* the body is no container or "choices" has no len()
ChoicesRaises(b) == InRaises(b) \/ b.choices.k = "null"
HasChoices(b) == b.choices.k = "list" /\ Len(b.choices.items) > 0

test_completion(o) ==
    LET start == <<Rec("info", "Testing completion", 0, 0)>>
        r == get_completion(o)
        failed(st) == <<Rec("error", "Completion test failed", st, 0)>>
    IN  IF r.raised THEN Probe(FALSE, start \o r.log \o failed(r.exc.status))
        ELSE IF ChoicesRaises(r.value) THEN Probe(FALSE, start \o failed(0))
        ELSE IF HasChoices(r.value)
            THEN LET c == Content(r.value.choices.items[1]) IN
                 IF c.raises THEN Probe(FALSE, start \o failed(0))
                 ELSE IF c.isNone
                    \* content[:200] raises after the success line is logged
                    THEN Probe(FALSE, start
                            \o <<Rec("info", "Completion test successful", 0, 0),
                                 Rec("info", "Sample response", 0, 0)>>
                            \o failed(0))
                 ELSE Probe(TRUE, start
                        \o <<Rec("info", "Completion test successful", 0, 0),
                             Rec("info", "Sample response", 0, 0)>>)
        ELSE Probe(FALSE, start
                \o <<Rec("error", "Completion test failed: unexpected response format", 0, 0),
                     Rec("error", "Response", 0, 0)>>)

\* the vocabulary of test_domain_specific
domain_terms ==
    <<"risk-adjusted", "return", "volatility", "standard deviation", "excess return">>

\* s.lower()
Lower(s) ==
    CASE s = "Volatility" -> "volatility"
      [] s = "Hello" -> "hello"
      [] OTHER -> s

\* the terms that are substrings of a phrase
SubTerms(s) ==
    CASE s = "excess return" -> {"excess return", "return"}
      [] OTHER -> {s}

\* term.lower() in content.lower()
TermIn(term, text) == \E j \in 1..Len(text) : Lower(term) \in SubTerms(Lower(text[j]))

matched_terms(text) ==
    LET Matches(term) == TermIn(term, text) IN SelectSeq(domain_terms, Matches)

\* DomainVerdict with the vocabulary miss reported as a failure
DomainVerdictStrict(matched) ==
    IF matched /= <<>>
    THEN Probe(TRUE, <<Rec("info", "Domain knowledge test successful", 0, 0),
                       Rec("info", "Matched domain terms", 0, Len(matched))>>)
    ELSE Probe(FALSE, <<Rec("warning", "Domain knowledge test partial", 0, 0),
                        Rec("info", "Sample response", 0, 0)>>)

\* DomainVerdict passing only a reply that matches the whole vocabulary
DomainVerdictAllTerms(matched) ==
    IF Len(matched) = Len(domain_terms)
    THEN Probe(TRUE, <<Rec("info", "Domain knowledge test successful", 0, 0),
                       Rec("info", "Matched domain terms", 0, Len(matched))>>)
    ELSE Probe(FALSE, <<Rec("warning", "Domain knowledge test partial", 0, 0),
                        Rec("info", "Sample response", 0, 0)>>)

\* the two branches on matched_terms: both return True
DomainVerdict(matched) ==
    IF matched /= <<>>
    THEN Probe(TRUE, <<Rec("info", "Domain knowledge test successful", 0, 0),
                       Rec("info", "Matched domain terms", 0, Len(matched))>>)
    ELSE Probe(TRUE, <<Rec("warning", "Domain knowledge test partial", 0, 0),
                       Rec("info", "Sample response", 0, 0)>>)

test_domain_specific(o) ==
    LET start == <<Rec("info", "Testing domain-specific knowledge", 0, 0)>>
        r == get_completion(o)
        failed(st) == <<Rec("error", "Domain knowledge test failed", st, 0)>>
    IN  IF r.raised THEN Probe(FALSE, start \o r.log \o failed(r.exc.status))
        ELSE IF ChoicesRaises(r.value) THEN Probe(FALSE, start \o failed(0))
        ELSE IF HasChoices(r.value)
            THEN LET c == Content(r.value.choices.items[1]) IN
                 \* content.lower() raises on None
                 IF c.raises \/ c.isNone THEN Probe(FALSE, start \o failed(0))
                 ELSE Probe(DomainVerdict(matched_terms(c.text)).ok,
                            start \o DomainVerdict(matched_terms(c.text)).log)
        ELSE Probe(FALSE, start
                \o <<Rec("error", "Domain knowledge test failed: unexpected response format", 0, 0)>>)

\* the number of requests test_rate_limits makes
num_requests == 3

\* one pass of the loop of test_rate_limits on request n: whether the
\* request counted as successful, whether the pause was reached, the log
RateRequest(o, n) ==
    LET start == <<Rec("info", "Making request", 0, n)>>
        r == get_completion(o)
        failed(st) == <<Rec("error", "Request failed", st, n)>>
    IN  IF r.raised
            THEN [ok |-> FALSE, slept |-> FALSE, log |-> start \o r.log \o failed(r.exc.status)]
        ELSE IF ChoicesRaises(r.value)
            THEN [ok |-> FALSE, slept |-> FALSE, log |-> start \o failed(0)]
        ELSE IF HasChoices(r.value)
            THEN [ok |-> TRUE, slept |-> TRUE,
                  log |-> start \o <<Rec("info", "Request successful", 0, n)>>]
        ELSE [ok |-> FALSE, slept |-> TRUE,
              log |-> start \o <<Rec("warning", "Request returned unexpected format", 0, n)>>]

\* RateClass with the quotient taken as an integer division
RateClassFloorDiv(s) ==
    IF (s \div num_requests) * 100 = 100 THEN "full"
    ELSE IF (s \div num_requests) * 100 >= 50 THEN "partial"
    ELSE "failure"

\* rate_limit_percentage = (successful / num_requests) * 100, compared with
\* 100 and with 50: the comparisons are made on the exact fraction
RateClass(s) ==
    IF s * 100 = 100 * num_requests THEN "full"
    ELSE IF s * 100 >= 50 * num_requests THEN "partial"
    ELSE "failure"

\* the end of test_rate_limits: classification, log line and return value
RateResult(s) ==
    CASE RateClass(s) = "full" ->
            Probe(TRUE, <<Rec("info", "Rate limit test passed", 0, 0)>>)
      [] RateClass(s) = "partial" ->
            Probe(TRUE, <<Rec("warning", "Rate limit test partially successful", 0, s)>>)
      [] OTHER ->
            Probe(FALSE, <<Rec("error", "Rate limit test failed", 0, s)>>)

\* Tests with the first two probes registered in the other order
TestsSwapped(skip_rate_limits) ==
    <<"Completion", "API Connectivity", "Domain Knowledge">>
        \o (IF skip_rate_limits THEN <<>> ELSE <<"Rate Limits">>)

\* main: the tests list, in the order it is run
Tests(skip_rate_limits) ==
    <<"API Connectivity", "Completion", "Domain Knowledge">>
        \o (IF skip_rate_limits THEN <<>> ELSE <<"Rate Limits">>)

Result(name, success) == [name |-> name, success |-> success]

\* success_count of main
SuccessCount(rs) == Cardinality({j \in 1..Len(rs) : rs[j].success})

\* OverallResult with the partial-pass test off by one
OverallResultOffByOne(rs) ==
    IF SuccessCount(rs) = Len(rs) THEN 0
    ELSE IF SuccessCount(rs) > 1 THEN 1
    ELSE 2

\* the value main returns after the summary
OverallResult(rs) ==
    IF SuccessCount(rs) = Len(rs) THEN 0
    ELSE IF SuccessCount(rs) > 0 THEN 1
    ELSE 2

\* the value main returns when an exception reaches its handler
UnexpectedErrorCode == 3

----------------------------------------------------------------------------
(* scripts/test-qwen3-api.py *)

\* the URL test_api_connection posts to
Qwen3Url(base) == RStrip(Str(base)) \o <<"/chat/completions">>

\* result['output']['choices'][0]['message'] and message.get('content', ''):
\* raises on an empty or null choices list, on a choice that is no mapping,
\* on a choice without "message" and on a null message
FirstMessageRaises(choices) ==
    \/ choices.k /= "list"
    \/ choices.items = <<>>
    \/ ~choices.items[1].isDict
    \/ choices.items[1].message /= "dict"

test_api_connection(o, verbose) ==
    LET start == <<Rec("info", "Testing DashScope API connection", 0, 0)>>
                 \o (IF verbose THEN <<Rec("info", "Request URL", 0, 0),
                                       Rec("info", "Request data", 0, 0)>> ELSE <<>>)
        answered == start
                 \o (IF verbose THEN <<Rec("info", "Response status", o.status, 0),
                                       Rec("info", "Response content", 0, 0)>> ELSE <<>>)
        b == o.body
    IN  IF o.net = "error"
            THEN Probe(FALSE, start \o <<Rec("error", "Request error", 0, 0)>>)
        ELSE IF o.status = 200
            THEN IF ~o.parses
                    THEN Probe(FALSE, answered \o <<Rec("error", "Request error", 0, 0)>>)
                 ELSE IF InRaises(b) \/ b.output.k = "null"
                    THEN Probe(FALSE, answered \o <<Rec("error", "Unexpected error", 0, 0)>>)
                 ELSE IF b.output.k = "dict" /\ b.output.choices.k /= "absent"
                    THEN IF FirstMessageRaises(b.output.choices)
                         THEN Probe(FALSE, answered \o <<Rec("error", "Unexpected error", 0, 0)>>)
                         ELSE Probe(TRUE, answered \o <<Rec("success", "API Response", 0, 0)>>)
                 ELSE Probe(FALSE, answered
                        \o <<Rec("error", "Unexpected response format", 0, 0)>>
                        \o (IF verbose THEN <<Rec("info", "Response", 0, 0)>> ELSE <<>>))
        ELSE IF o.status = 401
            THEN Probe(FALSE, answered
                    \o <<Rec("error", "Authentication failed: Invalid API key", 0, 0)>>)
        ELSE IF o.status = 429
            THEN Probe(FALSE, answered
                    \o <<Rec("warning", "Rate limit exceeded: Too many requests", 0, 0)>>)
        ELSE Probe(FALSE, answered
                \o <<Rec("error", "API request failed with status code", o.status, 0),
                     Rec("error", "Error details", 0, 0)>>)

\* what main passes to sys.exit after the probe
Qwen3ExitCode(success) == IF success THEN 0 ELSE 1

----------------------------------------------------------------------------
(* scripts/test-qwen3-235b-api.py *)

\* the URL test_qwen3_235b posts to
Qwen235bUrl(base) == Str(base) \o <<"/services/aigc/text-generation/generation">>

NoOutputYet == [kind |-> "none", body |-> NotAnObject]
ErrorResult == [kind |-> "error", body |-> NotAnObject]
JsonResult(b) == [kind |-> "json", body |-> b]

\* test_qwen3_235b, after the request was sent: response.json(), whatever
\* the status, or {"error": ...} on any exception
test_qwen3_235b(o) ==
    IF o.net = "error" \/ ~o.parses THEN ErrorResult ELSE JsonResult(o.body)

\* the script ends by falling off the end of the module
Qwen235bExitCode == 0
\* parser.error() of argparse on a missing required flag
ArgparseErrorCode == 2

----------------------------------------------------------------------------
(* The runs. *)

NoArgs == [api_key |-> None, api_base |-> NoBase, skip_rate_limits |-> FALSE,
           verbose |-> FALSE]

\* Command lines: --api-key omitted, empty or set; --api-base omitted or
\* given; the boolean flags only where the script declares them.
CommandLines(s) ==
    {[api_key |-> k, api_base |-> b, skip_rate_limits |-> sk, verbose |-> v] :
        k \in KeyVals, b \in {NoBase, CustomBase},
        sk \in (IF s = "deepseek" THEN BOOLEAN ELSE {FALSE}),
        v \in (IF s = "qwen3_235b" THEN {FALSE} ELSE BOOLEAN)}

Init ==
    /\ script \in Scripts
    /\ argv \in CommandLines(script)
    /\ env \in KeyVals
    /\ args = NoArgs
    /\ pc = "start"
    /\ api_key = None
    /\ url = <<>>
    /\ requests = <<>>
    /\ resp = NoResponse
    /\ log = <<>>
    /\ results = <<>>
    /\ i = 0
    /\ successful = 0
    /\ trace = <<>>
    /\ output = NoOutputYet
    /\ exitCode = Running

\* argparse: a flag that was omitted takes its declared default
WithDefault(given, default) == IF given = NoBase THEN default ELSE given

\* parse_arguments of the DeepSeek script and the start of its main
DeepSeekParseArguments ==
    /\ script = "deepseek" /\ pc = "start"
    /\ args' = [argv EXCEPT !.api_base = WithDefault(argv.api_base, DEFAULT_API_BASE)]
    /\ log' = <<Rec("info", "Starting DeepSeek API tests", 0, 0),
                Rec("info", "API Base", 0, 0), Rec("info", "Model", 0, 0)>>
    /\ pc' = "construct"
    /\ UNCHANGED <<script, argv, env, api_key, url, requests, resp, results, i,
                   successful, trace, output, exitCode>>

\* main: DeepSeekAPI(api_key=args.api_key, api_base=args.api_base); the
\* ValueError of __init__ lands in main's handler
DeepSeekConstruct ==
    /\ script = "deepseek" /\ pc = "construct"
    /\ LET key == ResolveKey(args.api_key, env) IN
       IF Truthy(key)
       THEN /\ api_key' = key
            /\ pc' = "tests"
            /\ UNCHANGED <<log, exitCode>>
       ELSE /\ log' = <<Rec("error", "Tests failed with unexpected error", 0, 0)>>
            /\ exitCode' = UnexpectedErrorCode
            /\ pc' = "done"
            /\ UNCHANGED api_key
    /\ UNCHANGED <<script, argv, args, env, url, requests, resp, results, i,
                   successful, trace, output>>

\* the test the loop of main runs next
NextTest ==
    IF Len(results) < Len(Tests(args.skip_rate_limits))
    THEN Tests(args.skip_rate_limits)[Len(results) + 1] ELSE "none"

\* main's loop body around one single-request probe: the request goes out,
\* is answered with o, and the probe's verdict p is appended to results
RunProbe(name, method, u, o, p) ==
    /\ script = "deepseek" /\ pc = "tests" /\ NextTest = name
    /\ url' = u
    /\ requests' = Append(requests, Request(method, u, api_key))
    /\ resp' = o
    /\ log' = p.log
    /\ results' = Append(results, Result(name, p.ok))
    /\ UNCHANGED <<script, argv, args, env, pc, api_key, i, successful, trace,
                   output, exitCode>>

RunConnectivity ==
    \E o \in Outcomes(ModelsBodies) :
        RunProbe("API Connectivity", "GET", ModelsUrl(args.api_base), o,
                 test_api_connectivity(o))

RunCompletion ==
    \E o \in Outcomes(CompletionBodies) :
        RunProbe("Completion", "POST", CompletionsUrl(args.api_base), o,
                 test_completion(o))

RunDomainKnowledge ==
    \E o \in Outcomes(CompletionBodies) :
        RunProbe("Domain Knowledge", "POST", CompletionsUrl(args.api_base), o,
                 test_domain_specific(o))

\* main enters test_rate_limits
RateLimitsStart ==
    /\ script = "deepseek" /\ pc = "tests" /\ NextTest = "Rate Limits"
    /\ pc' = "rate"
    /\ i' = 1
    /\ successful' = 0
    /\ trace' = <<>>
    /\ log' = <<Rec("info", "Testing API rate limits", 0, 0)>>
    /\ UNCHANGED <<script, argv, args, env, api_key, url, requests, resp, results,
                   output, exitCode>>

\* one pass of the loop of test_rate_limits
RateLimitsRequest ==
    /\ script = "deepseek" /\ pc = "rate" /\ i <= num_requests
    /\ \E o \in Outcomes(CompletionBodies) :
        LET r == RateRequest(o, i) IN
        /\ url' = CompletionsUrl(args.api_base)
        /\ requests' = Append(requests,
                              Request("POST", CompletionsUrl(args.api_base), api_key))
        /\ resp' = o
        /\ log' = r.log
        /\ successful' = IF r.ok THEN successful + 1 ELSE successful
        /\ trace' = trace \o <<"call">> \o (IF r.slept THEN <<"sleep">> ELSE <<>>)
    /\ i' = i + 1
    /\ UNCHANGED <<script, argv, args, env, pc, api_key, results, output, exitCode>>

\* the end of test_rate_limits and of main's loop body around it
RateLimitsFinish ==
    /\ script = "deepseek" /\ pc = "rate" /\ i > num_requests
    /\ log' = RateResult(successful).log
    /\ results' = Append(results, Result("Rate Limits", RateResult(successful).ok))
    /\ pc' = "tests"
    /\ UNCHANGED <<script, argv, args, env, api_key, url, requests, resp, i,
                   successful, trace, output, exitCode>>

\* main: the summary and the return value
Summary ==
    /\ script = "deepseek" /\ pc = "tests" /\ NextTest = "none"
    /\ log' = <<Rec("info", "Test Summary", 0, Len(results)),
                Rec(CASE OverallResult(results) = 0 -> "info"
                      [] OverallResult(results) = 1 -> "warning"
                      [] OTHER -> "error",
                    "Overall result", 0, SuccessCount(results))>>
    /\ exitCode' = OverallResult(results)
    /\ pc' = "done"
    /\ UNCHANGED <<script, argv, args, env, api_key, url, requests, resp, results, i,
                   successful, trace, output>>

\* parse_args of the Qwen3 script
Qwen3ParseArgs ==
    /\ script = "qwen3" /\ pc = "start"
    /\ args' = [argv EXCEPT !.api_base = WithDefault(argv.api_base, QWEN3_DEFAULT_API_BASE)]
    /\ pc' = "check_key"
    /\ UNCHANGED <<script, argv, env, api_key, url, requests, resp, log, results, i,
                   successful, trace, output, exitCode>>

\* main of the Qwen3 script: the key from the flag or the environment
Qwen3CheckKey ==
    /\ script = "qwen3" /\ pc = "check_key"
    /\ LET key == PyOr(args.api_key, env) IN
       IF Truthy(key)
       THEN /\ api_key' = key
            /\ pc' = "probe"
            /\ UNCHANGED <<log, exitCode>>
       ELSE /\ log' = <<Rec("error", "No API key provided", 0, 0)>>
            /\ exitCode' = 1
            /\ pc' = "done"
            /\ UNCHANGED api_key
    /\ UNCHANGED <<script, argv, args, env, url, requests, resp, results, i,
                   successful, trace, output>>

\* main of the Qwen3 script: the probe and the exit
Qwen3TestConnection ==
    /\ script = "qwen3" /\ pc = "probe"
    /\ \E o \in Outcomes(DashScopeBodies) :
        LET p == test_api_connection(o, args.verbose) IN
        /\ url' = Qwen3Url(args.api_base)
        /\ requests' = Append(requests, Request("POST", Qwen3Url(args.api_base), api_key))
        /\ resp' = o
        /\ log' = p.log \o <<IF p.ok
                             THEN Rec("success", "API connection test successful", 0, 0)
                             ELSE Rec("error", "API connection test failed", 0, 0)>>
        /\ results' = <<Result("API Connection", p.ok)>>
        /\ exitCode' = Qwen3ExitCode(p.ok)
    /\ pc' = "done"
    /\ UNCHANGED <<script, argv, args, env, api_key, i, successful, trace, output>>

\* the argument parser of the Qwen3-235B script: --api-key is required,
\* --api-base has no default
Qwen235bParseArgs ==
    /\ script = "qwen3_235b" /\ pc = "start"
    /\ IF argv.api_key = None
       THEN /\ exitCode' = ArgparseErrorCode
            /\ pc' = "done"
            /\ UNCHANGED args
       ELSE /\ args' = argv
            /\ pc' = "call"
            /\ UNCHANGED exitCode
    /\ UNCHANGED <<script, argv, env, api_key, url, requests, resp, log, results, i,
                   successful, trace, output>>

\* test_qwen3_235b(args.api_key, args.api_base) and the print of its result
Qwen235bCall ==
    /\ script = "qwen3_235b" /\ pc = "call"
    /\ api_key' = args.api_key
    /\ url' = Qwen235bUrl(args.api_base)
    /\ IF HasScheme(Qwen235bUrl(args.api_base))
       THEN \E o \in Outcomes(DashScopeBodies) :
                /\ requests' = Append(requests,
                        Request("POST", Qwen235bUrl(args.api_base), args.api_key))
                /\ resp' = o
                /\ output' = test_qwen3_235b(o)
       ELSE \* requests raises on the URL before anything is sent
            /\ output' = ErrorResult
            /\ UNCHANGED <<requests, resp>>
    /\ log' = <<Rec("plain", "result", 0, 0)>>
    /\ exitCode' = Qwen235bExitCode
    /\ pc' = "done"
    /\ UNCHANGED <<script, argv, args, env, results, i, successful, trace>>

Next ==
    \/ DeepSeekParseArguments
    \/ DeepSeekConstruct
    \/ RunConnectivity
    \/ RunCompletion
    \/ RunDomainKnowledge
    \/ RateLimitsStart
    \/ RateLimitsRequest
    \/ RateLimitsFinish
    \/ Summary
    \/ Qwen3ParseArgs
    \/ Qwen3CheckKey
    \/ Qwen3TestConnection
    \/ Qwen235bParseArgs
    \/ Qwen235bCall

Spec == Init /\ [][Next]_vars

----------------------------------------------------------------------------
(* Properties. *)

\* the request got an HTTP response that the client hands back as JSON
ReturnedOk(o) == o.net = "ok" /\ o.status >= 200 /\ o.status < 300 /\ o.parses

\* the request got an HTTP response with a status outside 2xx
NonSuccessStatus(o) == o.net = "ok" /\ (o.status < 200 \/ o.status >= 300)

\* the DeepSeek main has just run its n-th probe (n <= 3): resp and log are
\* that probe's
AfterProbe(n) == script = "deepseek" /\ pc = "tests" /\ Len(results) = n

\* the DeepSeek main has just left test_rate_limits
AfterRateLimits == script = "deepseek" /\ pc = "tests" /\ Len(results) = 4

\* the Qwen3 main has run its probe and exited
AfterQwen3Probe == script = "qwen3" /\ pc = "done" /\ requests /= <<>>

\* the DeepSeek main got past the construction of the client
ClientConstructed ==
    script = "deepseek" /\ (pc \in {"tests", "rate"} \/ (pc = "done" /\ api_key /= None))

\* C1: in each script, every HTTP request that goes on the wire carries a
\* non-empty credential: with the credential missing or empty the run sends
\* no request at all.
C1_NoRequestWithoutCredential ==
    \A j \in 1..Len(requests) : Truthy(requests[j].auth)

\* C2: the exit code of the DeepSeek main is 3 exactly when the exception
\* of the constructor reached main's handler, and otherwise 0 exactly when
\* every probe passed, 1 exactly when some but not all passed and 2 exactly
\* when none passed.
C2_ExitCodeFromResults ==
    (script = "deepseek" /\ pc = "done") =>
        LET passed == {j \in 1..Len(results) : results[j].success}
            escaped == api_key = None
        IN  /\ exitCode \in {0, 1, 2, 3}
            /\ (exitCode = 3) <=> escaped
            /\ escaped => results = <<>>
            /\ ~escaped =>
                /\ results /= <<>>
                /\ (exitCode = 0) <=> (passed = 1..Len(results))
                /\ (exitCode = 1) <=> (passed /= {} /\ passed /= 1..Len(results))
                /\ (exitCode = 2) <=> (passed = {})

C2_PartialPassExit ==
    /\ script = "deepseek" /\ pc = "done" /\ exitCode = 1
    /\ Len(results) = 4 /\ ~results[1].success /\ results[4].success

\* C3: once the DeepSeek client is constructed, whatever the transport
\* outcomes, the probes run once each in the order connectivity,
\* completion, domain knowledge and (unless skipped) rate limits, a failed
\* probe is followed by the next one, and main ends with exit code 0, 1 or 2.
C3_ProbesRunInOrder ==
    ClientConstructed =>
        LET order == IF args.skip_rate_limits
                     THEN <<"API Connectivity", "Completion", "Domain Knowledge">>
                     ELSE <<"API Connectivity", "Completion", "Domain Knowledge",
                            "Rate Limits">>
        IN  /\ Len(results) <= Len(order)
            /\ \A j \in 1..Len(results) : results[j].name = order[j]
            /\ pc = "rate" => Len(results) = 3
            /\ pc = "done" =>
                /\ Len(results) = Len(order)
                /\ exitCode \in {0, 1, 2}
                /\ Len(requests) = IF args.skip_rate_limits THEN 3 ELSE 3 + num_requests

C3_LaterProbesAfterFailure ==
    /\ script = "deepseek" /\ pc = "done" /\ Len(results) = 4
    /\ ~results[1].success /\ ~results[2].success
    /\ results[3].success /\ results[4].success
    /\ exitCode = 1

\* the calls test_rate_limits has made
Calls == Cardinality({j \in 1..Len(trace) : trace[j] = "call"})

\* C4: test_rate_limits makes exactly 3 completion calls, one per pass,
\* whatever their outcomes; with s of them successful it reports full
\* success for s = 3, partial success for s = 2 and failure for s <= 1, and
\* it returns True exactly when s >= 2.
C4_RateLimitClassification ==
    /\ (script = "deepseek" /\ pc = "rate") =>
            /\ Calls = i - 1
            /\ Len(requests) = 3 + (i - 1)
            /\ successful <= i - 1
    /\ AfterRateLimits =>
            /\ Calls = 3
            /\ Len(requests) = 6
            /\ results[4].success <=> successful >= 2
            /\ (successful = 3) <=> (log[1].msg = "Rate limit test passed")
            /\ (successful = 2) <=> (log[1].msg = "Rate limit test partially successful")
            /\ (successful <= 1) <=> (log[1].msg = "Rate limit test failed")

C4_TwoOfThree ==
    /\ AfterRateLimits /\ successful = 2 /\ results[4].success
    /\ trace = <<"call", "sleep", "call", "call", "sleep">>

\* C5: the connectivity probe succeeds exactly when the list-models
\* response carries a non-empty list under "data".
C5_ConnectivityIffNonEmptyData ==
    AfterProbe(1) =>
        (results[1].success <=>
            /\ ReturnedOk(resp)
            /\ resp.body.isDict
            /\ resp.body.data.k = "list"
            /\ resp.body.data.items /= <<>>)

\* the body carries a non-empty "choices" list whose first choice is
\* well formed: a mapping whose message, when present, is a mapping and
\* whose content, when present, is a string
WellFormedFirstChoice(b) ==
    /\ b.isDict
    /\ b.choices.k = "list"
    /\ b.choices.items /= <<>>
    /\ LET c == b.choices.items[1] IN
        /\ c.isDict
        /\ \/ c.message = "absent"
           \/ c.message = "dict" /\ c.content \in {"absent", "str"}

\* C6 as stated: whenever get_completion returns without raising,
\* test_domain_specific returns True, a missing or empty choices list
\* included.
C6_DomainSucceedsWheneverCallReturns ==
    (AfterProbe(3) /\ ReturnedOk(resp)) => results[3].success

\* C6 as amended: whenever get_completion returns without raising,
\* test_domain_specific returns True exactly when the response carries a
\* non-empty choices list with a well-formed first choice, whether or not
\* the reply matches the vocabulary; with the choices missing or empty it
\* returns False.
C6_DomainSucceedsOnAnyReply ==
    (AfterProbe(3) /\ ReturnedOk(resp)) =>
        (results[3].success <=> WellFormedFirstChoice(resp.body))

C6_SuccessWithoutVocabulary ==
    /\ AfterProbe(3) /\ ReturnedOk(resp) /\ results[3].success
    /\ resp.body.choices.items[1] = Reply(PlainText)
    /\ \E j \in 1..Len(log) : log[j].msg = "Domain knowledge test partial"

\* some record of the latest step shows the status code of the response
LogShowsStatus == \E j \in 1..Len(log) : log[j].status = resp.status

\* C7: in the DeepSeek script and in the Qwen3 script, a probe whose
\* request is answered with a status outside 2xx reports failure, and the
\* records it logs show that status code, verbose or not.
C7_FailureLogsStatusCode ==
    /\ (script = "deepseek" /\ pc = "tests" /\ Len(results) \in 1..3
            /\ NonSuccessStatus(resp)) =>
                (~results[Len(results)].success /\ LogShowsStatus)
    /\ (AfterQwen3Probe /\ NonSuccessStatus(resp)) =>
                (~results[1].success /\ exitCode /= 0 /\ LogShowsStatus)

\* the response lacks the choices the script expects
LacksChoices(o) ==
    IF script = "deepseek"
    THEN o.body.choices.k /= "list" \/ o.body.choices.items = <<>>
    ELSE \/ o.body.output.k /= "dict"
         \/ o.body.output.choices.k /= "list"
         \/ o.body.output.choices.items = <<>>

\* the run made a single request per probe and the latest one failed: no
\* response, a status outside 2xx, a body that is not JSON, or a body
\* without the expected choices (the repeated-request probe, which
\* tolerates one failed request of three, is left out)
RequestFailed ==
    /\ requests /= <<>>
    /\ script = "deepseek" => args.skip_rate_limits
    /\ (resp.net = "error" \/ NonSuccessStatus(resp) \/ ~resp.parses \/ LacksChoices(resp))

\* C8: in each script, a finished run that was given a credential has exit
\* code 0 only if every probe it ran passed, and a run whose request failed
\* has a non-zero exit code.
C8_ExitCodeReportsOutcome ==
    (pc = "done" /\ Truthy(api_key)) =>
        /\ exitCode = 0 => \A j \in 1..Len(results) : results[j].success
        /\ RequestFailed => exitCode /= 0

\* the default base URL of each script
DefaultBase ==
    CASE script = "deepseek" -> DEFAULT_API_BASE
      [] script = "qwen3" -> QWEN3_DEFAULT_API_BASE
      [] OTHER -> QWEN3_235B_DEFAULT_API_BASE

\* s is a prefix of t
IsPrefix(s, t) == Len(s) <= Len(t) /\ SubSeq(t, 1, Len(s)) = s

\* C9: in each script, the URL of a run that was given a credential and
\* reaches its request is built from the script's default base URL when
\* --api-base is omitted and from the given value when it is given.
C9_BaseUrlDefault ==
    (url /= <<>> /\ Truthy(api_key)) =>
        IsPrefix(RStrip(IF argv.api_base = NoBase THEN DefaultBase ELSE argv.api_base), url)

\* a choice that carries a non-empty reply
NonEmptyChoice(c) ==
    c.isDict /\ c.message = "dict" /\ c.content = "str" /\ c.text /= <<>>

\* the Qwen3 probe was answered 200 with an empty output.choices list
Qwen3EmptyChoices ==
    /\ AfterQwen3Probe /\ resp.net = "ok" /\ resp.status = 200 /\ resp.parses
    /\ resp.body.isDict /\ resp.body.output.k = "dict"
    /\ resp.body.output.choices = List(<<>>)

\* C10 as stated: test_completion reports failure for every returned
\* response whose choices are missing or empty and success for every
\* returned response that contains at least one non-empty choice; the Qwen3
\* probe answered 200 with an empty output.choices list reports failure and
\* the script exits normally with code 1.
C10_CompletionByChoices ==
    /\ (AfterProbe(2) /\ ReturnedOk(resp)) =>
        /\ (resp.body.choices.k = "absent" \/ resp.body.choices = List(<<>>))
                => ~results[2].success
        /\ (\E j \in 1..Len(resp.body.choices.items) :
                NonEmptyChoice(resp.body.choices.items[j]))
                => results[2].success
    /\ Qwen3EmptyChoices => (~results[1].success /\ exitCode = 1)

\* C10 as amended: test_completion reports failure for every returned
\* response whose choices are missing or empty and success for every
\* returned response whose first choice is a non-empty choice; the Qwen3
\* part is unchanged.
C10_CompletionByFirstChoice ==
    /\ (AfterProbe(2) /\ ReturnedOk(resp)) =>
        /\ (resp.body.choices.k = "absent" \/ resp.body.choices = List(<<>>))
                => ~results[2].success
        /\ (resp.body.choices.k = "list" /\ resp.body.choices.items /= <<>>
                /\ NonEmptyChoice(resp.body.choices.items[1]))
                => results[2].success
    /\ Qwen3EmptyChoices => (~results[1].success /\ exitCode = 1)

C10_FirstChoiceDecides ==
    /\ AfterProbe(2) /\ ReturnedOk(resp)
    /\ resp.body.choices = List(<<Reply(PlainText), Reply(PlainText)>>)
    /\ results[2].success

\* the body carries a "choices" list with at least one choice
HasAChoice(b) == b.isDict /\ b.choices.k = "list" /\ b.choices.items /= <<>>

\* the returned responses test_domain_specific can be handed
ReturnedResponses == {o \in Outcomes(CompletionBodies) : ReturnedOk(o)}

\* the latest step logged a record with this text
Logged(msg) == \E j \in 1..Len(log) : log[j].msg = msg

\* the number the record with this text shows
LoggedCount(msg) == (CHOOSE r \in {log[j] : j \in 1..Len(log)} : r.msg = msg).n

\* C11 as stated: the result of test_domain_specific is the same, success,
\* for any two returned responses that both contain at least one choice:
\* the response the probe got and any other one.
C11_SameResultForAnyChoice ==
    (AfterProbe(3) /\ ReturnedOk(resp) /\ HasAChoice(resp.body)) =>
        \A o \in ReturnedResponses :
            HasAChoice(o.body) =>
                /\ results[3].success
                /\ test_domain_specific(o).ok = results[3].success

\* C11 as amended: the result of test_domain_specific is the same, success,
\* for any two returned responses whose first choice is well formed (so
\* that it has a reply text), whether the text matches some, all or none of
\* the expected terms; with no match the probe logs the miss and no matched
\* terms, with a match it logs how many terms matched.
C11_ResultIgnoresVocabulary ==
    (AfterProbe(3) /\ ReturnedOk(resp) /\ WellFormedFirstChoice(resp.body)) =>
        LET text == resp.body.choices.items[1].text IN
        /\ \A o \in ReturnedResponses :
                WellFormedFirstChoice(o.body) =>
                    /\ results[3].success
                    /\ test_domain_specific(o).ok = results[3].success
        /\ text \in {<<>>, PlainText} =>
                /\ Logged("Domain knowledge test partial")
                /\ ~Logged("Matched domain terms")
        /\ text = DomainText =>
                /\ ~Logged("Domain knowledge test partial")
                /\ LoggedCount("Matched domain terms") = 3
        /\ text = AllTermsText =>
                /\ ~Logged("Domain knowledge test partial")
                /\ LoggedCount("Matched domain terms") = Len(domain_terms)

C11_SomeTermsMatched ==
    /\ AfterProbe(3) /\ ReturnedOk(resp) /\ results[3].success
    /\ resp.body.choices.items[1] = Reply(DomainText)
    /\ LoggedCount("Matched domain terms") = 3
    /\ test_domain_specific(Response(200, Dict(Absent, List(<<Reply(PlainText)>>), NoOutput))).ok

\* C12: in test_rate_limits every call but the last is followed by a pause
\* before the next call, whatever its outcome: no two calls are adjacent.
C12_PauseBetweenCalls ==
    \A j \in 1..(Len(trace) - 1) : trace[j] = "call" => trace[j + 1] = "sleep"

====
